---- MODULE Spec2Model ----
(***************************************************************************)
(* A model of scripts/extract_training_data.py: ConversationExtractor's    *)
(* load_raw_data, extract_content, reconstruct_conversations and           *)
(* filter_quality, run in the order main() calls them.                     *)
(*                                                                         *)
(* lines holds the non-blank lines of the export, each decoded by          *)
(* json.loads: a record with the fields uuid, parentUuid, sessionId, type, *)
(* timestamp (a string, or Absent when the key is missing) and message.    *)
(* Python strings are TLA+ strings; the str methods the code uses (join,   *)
(* strip, split, lower, in, len) are computed character by character.  A   *)
(* message of a session is a reference to a decoded line: its index in     *)
(* lines.  walkLog, sources and visited are history variables: the walks   *)
(* made so far, the line each turn of the walk came from, the lines the    *)
(* walk has been at.                                                       *)
(***************************************************************************)
EXTENDS Integers, Sequences, FiniteSets, TLC

VARIABLES lines, min_turns, min_tokens, pc, li, sessions, si, roots, ri,
          current, conversation, sources, visited, conversations, walkLog, fi,
          filtered, raised

vars == <<lines, min_turns, min_tokens, pc, li, sessions, si, roots, ri,
          current, conversation, sources, visited, conversations, walkLog, fi,
          filtered, raised>>

-----------------------------------------------------------------------------
(* Bounds of the model and constants of the program.                       *)

MaxLines == 3
MaxTurns == 2
DefaultMinTurns == 3
DefaultMinTokens == 50
ReasoningMinLen == 200

\* A key that the decoded JSON object does not have.
Absent == "<absent>"
\* Python's None.
None == "<None>"

-----------------------------------------------------------------------------
(* Python str operations.                                                  *)

Char(s, i) == SubSeq(s, i, i)

Whitespace == {" ", "\n", "\t"}

RECURSIVE Join(_, _)
\* sep.join(parts)
Join(parts, sep) ==
    IF Len(parts) = 0 THEN ""
    ELSE IF Len(parts) = 1 THEN parts[1]
    ELSE parts[1] \o sep \o Join(Tail(parts), sep)

\* s.strip() is the empty string
StripIsEmpty(s) == \A i \in 1..Len(s) : Char(s, i) \in Whitespace

\* sub in s
Contains(s, sub) ==
    \E i \in 1..(Len(s) - Len(sub) + 1) : SubSeq(s, i, i + Len(sub) - 1) = sub

UpperChars == <<"A", "B", "C", "D", "E", "F", "G", "H", "I", "J", "K", "L", "M",
                "N", "O", "P", "Q", "R", "S", "T", "U", "V", "W", "X", "Y", "Z">>
LowerChars == <<"a", "b", "c", "d", "e", "f", "g", "h", "i", "j", "k", "l", "m",
                "n", "o", "p", "q", "r", "s", "t", "u", "v", "w", "x", "y", "z">>

UpperSet == {UpperChars[k] : k \in 1..26}
LowerOf == [c \in UpperSet |-> LowerChars[CHOOSE k \in 1..26 : UpperChars[k] = c]]

LowerChar(c) == IF c \in UpperSet THEN LowerOf[c] ELSE c

RECURSIVE LowerRange(_, _, _)
\* s[lo..hi].lower(), by halves
LowerRange(s, lo, hi) ==
    IF lo > hi THEN ""
    ELSE IF lo = hi THEN LowerChar(Char(s, lo))
    ELSE LET mid == (lo + hi) \div 2
         IN LowerRange(s, lo, mid) \o LowerRange(s, mid + 1, hi)

\* s.lower()
Lower(s) == LowerRange(s, 1, Len(s))

RECURSIVE SplitRange(_, _, _)
\* s[lo..hi].split(), by halves: a word that runs over the middle is the last
\* word of the left half followed by the first word of the right half
SplitRange(s, lo, hi) ==
    IF lo > hi THEN <<>>
    ELSE IF lo = hi
         THEN (IF Char(s, lo) \in Whitespace THEN <<>> ELSE <<Char(s, lo)>>)
    ELSE LET mid == (lo + hi) \div 2
             left == SplitRange(s, lo, mid)
             right == SplitRange(s, mid + 1, hi)
         IN IF Char(s, mid) \notin Whitespace /\ Char(s, mid + 1) \notin Whitespace
            THEN SubSeq(left, 1, Len(left) - 1)
                 \o <<left[Len(left)] \o right[1]>>
                 \o Tail(right)
            ELSE left \o right

\* s.split()
Split(s) == SplitRange(s, 1, Len(s))

RECURSIVE Sum(_)
Sum(ns) == IF Len(ns) = 0 THEN 0 ELSE ns[1] + Sum(Tail(ns))

\* Python truthiness of an Optional[str]
Truthy(x) == x # None /\ x # ""

\* d.get(key, default) on a decoded object
Get(d, key, default) == IF d[key] = Absent THEN default ELSE d[key]

-----------------------------------------------------------------------------
(* The message payload.  message.kind is "absent", "str" or "dict"; a dict *)
(* has content, of kind "absent", "str" or "list" (a list of blocks).  A   *)
(* block is a dict with type, text and name, or something that is no dict. *)

NoContent == [kind |-> "absent", str |-> "", blocks |-> <<>>]
StrContent(s) == [kind |-> "str", str |-> s, blocks |-> <<>>]
ListContent(bs) == [kind |-> "list", str |-> "", blocks |-> bs]

NoMessage == [kind |-> "absent", str |-> "", content |-> NoContent]
StrMessage(s) == [kind |-> "str", str |-> s, content |-> NoContent]
DictMessage(c) == [kind |-> "dict", str |-> "", content |-> c]

TextBlock(t) == [isdict |-> TRUE, type |-> "text", text |-> t, name |-> Absent]
ToolBlock(n) == [isdict |-> TRUE, type |-> "tool_use", text |-> Absent, name |-> n]
ImageBlock == [isdict |-> TRUE, type |-> "image", text |-> Absent, name |-> Absent]

\* What a call gives: a value, or an exception that ends the run.
Returned(v) == [exc |-> "", val |-> v]
Raised(e) == [exc |-> e, val |-> None]

RECURSIVE UserTexts(_)
\* lines 45-48: the text of every dict block of type text
UserTexts(blocks) ==
    IF Len(blocks) = 0 THEN <<>>
    ELSE (IF blocks[1].isdict /\ blocks[1].type = "text"
          THEN <<Get(blocks[1], "text", "")>> ELSE <<>>)
         \o UserTexts(Tail(blocks))

RECURSIVE AssistantTexts(_)
\* lines 59-61
AssistantTexts(blocks) ==
    IF Len(blocks) = 0 THEN <<>>
    ELSE (IF blocks[1].type = "text"
          THEN <<Get(blocks[1], "text", "")>> ELSE <<>>)
         \o AssistantTexts(Tail(blocks))

\* line 66
ToolMarker(tool_name) == "[TOOL: " \o tool_name \o "]"

RECURSIVE AssistantToolUses(_)
\* lines 62-66
AssistantToolUses(blocks) ==
    IF Len(blocks) = 0 THEN <<>>
    ELSE (IF blocks[1].type = "tool_use"
          THEN <<ToolMarker(Get(blocks[1], "name", ""))>> ELSE <<>>)
         \o AssistantToolUses(Tail(blocks))

\* lines 68-70
AssistantResponse(texts, tool_uses) ==
    IF Len(tool_uses) > 0
    THEN Join(texts, "\n") \o "\n" \o Join(tool_uses, "\n")
    ELSE Join(texts, "\n")

\* lines 37-51
ExtractUser(msg) ==
    LET m == msg.message IN
    IF m.kind \in {"absent", "dict"}
    THEN LET text_parts == IF m.kind = "absent" \/ m.content.kind = "absent"
                           THEN ListContent(<<>>) ELSE m.content
         IN IF text_parts.kind = "str" THEN Returned(text_parts.str)
            ELSE LET texts == UserTexts(text_parts.blocks)
                 IN IF Len(texts) > 0 THEN Returned(Join(texts, "\n"))
                    ELSE Returned(None)
    ELSE IF m.kind = "str" THEN Returned(m.str)
    ELSE Returned(None)

\* lines 53-71
ExtractAssistant(msg) ==
    LET m == msg.message IN
    IF m.kind = "str" THEN Raised("AttributeError")
    ELSE LET content == IF m.kind = "absent" \/ m.content.kind = "absent"
                        THEN ListContent(<<>>) ELSE m.content
         IN IF content.kind = "str" /\ content.str # "" THEN Raised("AttributeError")
            ELSE IF \E k \in 1..Len(content.blocks) : ~content.blocks[k].isdict
            THEN Raised("AttributeError")
            ELSE LET response == AssistantResponse(AssistantTexts(content.blocks),
                                                   AssistantToolUses(content.blocks))
                 IN IF ~StripIsEmpty(response) THEN Returned(response)
                    ELSE Returned(None)

\* lines 35-73
extract_content(msg) ==
    IF msg.type = Absent THEN Raised("KeyError")
    ELSE IF msg.type = "user" THEN ExtractUser(msg)
    ELSE IF msg.type = "assistant" THEN ExtractAssistant(msg)
    ELSE Returned(None)

-----------------------------------------------------------------------------
(* load_raw_data: sessions is the defaultdict, in insertion order.         *)

\* line 30
SessionIdOf(msg) == Get(msg, "sessionId", "unknown")

\* line 31: self.sessions[session_id].append(msg)
AppendToSession(sess, session_id, m) ==
    IF \E k \in 1..Len(sess) : sess[k].id = session_id
    THEN [k \in 1..Len(sess) |->
            IF sess[k].id = session_id
            THEN [sess[k] EXCEPT !.messages = Append(@, m)]
            ELSE sess[k]]
    ELSE Append(sess, [id |-> session_id, messages |-> <<m>>])

\* lines 27-31, one line of the file
LoadLine ==
    /\ pc = "load"
    /\ li <= Len(lines)
    /\ sessions' = AppendToSession(sessions, SessionIdOf(lines[li]), li)
    /\ li' = li + 1
    /\ pc' = IF li = Len(lines) THEN "sessions" ELSE "load"
    /\ UNCHANGED <<lines, min_turns, min_tokens, si, roots, ri, current,
                   conversation, sources, visited, conversations, walkLog, fi,
                   filtered, raised>>

-----------------------------------------------------------------------------
(* reconstruct_conversations                                               *)

\* line 81: the keys of msg_map
MsgMapKeys(messages) == {lines[messages[k]].uuid : k \in 1..Len(messages)}

\* line 87
IsRoot(msg, msg_map) ==
    LET parent == Get(msg, "parentUuid", None)
    IN ~Truthy(parent) \/ parent \notin msg_map

RECURSIVE FindRoots(_, _)
\* lines 84-88
FindRoots(messages, msg_map) ==
    IF Len(messages) = 0 THEN <<>>
    ELSE (IF IsRoot(lines[messages[1]], msg_map) THEN <<messages[1]>> ELSE <<>>)
         \o FindRoots(Tail(messages), msg_map)

\* FirstChild, searching the lines of every session
FirstChildAnySession(messages, cur) ==
    IF \E k \in 1..Len(lines) :
            Get(lines[k], "parentUuid", None) = lines[cur].uuid
    THEN CHOOSE k \in 1..Len(lines) :
            /\ Get(lines[k], "parentUuid", None) = lines[cur].uuid
            /\ \A j \in 1..(k - 1) :
                   Get(lines[j], "parentUuid", None) # lines[cur].uuid
    ELSE 0

\* lines 106-110: the first message whose parentUuid is cur's uuid; 0 is None
FirstChild(messages, cur) ==
    IF \E k \in 1..Len(messages) :
            Get(lines[messages[k]], "parentUuid", None) = lines[cur].uuid
    THEN messages[CHOOSE k \in 1..Len(messages) :
            /\ Get(lines[messages[k]], "parentUuid", None) = lines[cur].uuid
            /\ \A j \in 1..(k - 1) :
                   Get(lines[messages[j]], "parentUuid", None) # lines[cur].uuid]
    ELSE 0

\* lines 98-103
MakeTurn(msg, content) ==
    [role |-> IF msg.type = "user" THEN "user" ELSE "assistant",
     content |-> content,
     timestamp |-> Get(msg, "timestamp", ""),
     uuid |-> msg.uuid]

\* WithTurn, taking every content but None
WithTurnNotNone(conv, msg, content) ==
    IF content # None THEN Append(conv, MakeTurn(msg, content)) ELSE conv

\* lines 97-103
WithTurn(conv, msg, content) ==
    IF Truthy(content) THEN Append(conv, MakeTurn(msg, content)) ELSE conv

\* KeepWalk, with > for >=
KeepWalkStrict(conv) == Len(conv) > min_turns

\* line 113
KeepWalk(conv) == Len(conv) >= min_turns

\* The walk is cut after WalkCap records: a longer walk has met a record twice.
WalkCap == MaxLines + 1

\* lines 79-88: the next session of the loop, its msg_map and its roots
NextSession ==
    /\ pc = "sessions"
    /\ IF si > Len(sessions)
       THEN /\ pc' = "filter"
            /\ UNCHANGED <<roots, ri, raised>>
       ELSE LET messages == sessions[si].messages IN
            IF Absent \in MsgMapKeys(messages)
            THEN /\ pc' = "raised"
                 /\ raised' = "KeyError"
                 /\ UNCHANGED <<roots, ri>>
            ELSE /\ roots' = FindRoots(messages, MsgMapKeys(messages))
                 /\ ri' = 1
                 /\ pc' = "roots"
                 /\ UNCHANGED raised
    /\ UNCHANGED <<lines, min_turns, min_tokens, li, sessions, si, current,
                   conversation, sources, visited, conversations, walkLog, fi, filtered>>

\* lines 91-93: the next root of the session
NextRoot ==
    /\ pc = "roots"
    /\ IF ri > Len(roots)
       THEN /\ si' = si + 1
            /\ pc' = "sessions"
            /\ UNCHANGED <<current, conversation, sources, visited>>
       ELSE /\ current' = roots[ri]
            /\ conversation' = <<>>
            /\ sources' = <<>>
            /\ visited' = <<>>
            /\ pc' = "walk"
            /\ UNCHANGED si
    /\ UNCHANGED <<lines, min_turns, min_tokens, li, sessions, roots, ri,
                   conversations, walkLog, fi, filtered, raised>>

\* lines 95-111: one turn of the while loop
WalkStep ==
    /\ pc = "walk"
    /\ current # 0
    /\ Len(visited) < WalkCap
    /\ LET got == extract_content(lines[current]) IN
       IF got.exc # ""
       THEN /\ pc' = "raised"
            /\ raised' = got.exc
            /\ UNCHANGED <<current, conversation, sources, visited>>
       ELSE /\ conversation' = WithTurn(conversation, lines[current], got.val)
            /\ sources' = IF conversation' # conversation
                          THEN Append(sources, current) ELSE sources
            /\ visited' = Append(visited, current)
            /\ current' = FirstChild(sessions[si].messages, current)
            /\ UNCHANGED <<pc, raised>>
    /\ UNCHANGED <<lines, min_turns, min_tokens, li, sessions, si, roots, ri,
                   conversations, walkLog, fi, filtered>>

\* lines 113-114: the walk is over
EndWalk ==
    /\ pc = "walk"
    /\ current = 0
    /\ conversations' = IF KeepWalk(conversation)
                        THEN Append(conversations, conversation)
                        ELSE conversations
    /\ walkLog' = Append(walkLog, [session |-> si, root |-> roots[ri],
                                   visited |-> visited, conv |-> conversation,
                                   src |-> sources,
                                   at |-> IF conversations' # conversations
                                          THEN Len(conversations') ELSE 0])
    /\ ri' = ri + 1
    /\ pc' = "roots"
    /\ UNCHANGED <<lines, min_turns, min_tokens, li, sessions, si, roots,
                   current, conversation, sources, visited, fi, filtered, raised>>

-----------------------------------------------------------------------------
(* filter_quality                                                          *)

Keywords == <<"let me", "first", "then", "next", "because", "however",
              "consider", "alternatively", "analysis", "approach">>

RECURSIVE WordCounts(_)
\* line 124: len(msg['content'].split()) for msg in conv
WordCounts(conv) ==
    IF Len(conv) = 0 THEN <<>>
    ELSE <<Len(Split(conv[1].content))>> \o WordCounts(Tail(conv))

\* line 124
total_tokens(conv) == Sum(WordCounts(conv))

\* has_tools, looking at the turns of either role
has_tools_any_role(conv) ==
    \E k \in 1..Len(conv) : Contains(conv[k].content, "[TOOL:")

\* line 129
has_tools(conv) ==
    \E k \in 1..Len(conv) :
        conv[k].role = "assistant" /\ Contains(conv[k].content, "[TOOL:")

\* lines 131-135
ReasoningTurn(content) ==
    /\ Len(content) > ReasoningMinLen
    /\ LET lowered == Lower(content)
       IN \E n \in 1..Len(Keywords) : Contains(lowered, Keywords[n])

\* lines 130-137
has_reasoning(conv) ==
    \E k \in 1..Len(conv) :
        conv[k].role = "assistant" /\ ReasoningTurn(conv[k].content)

\* lines 124-140
Accepts(conv) ==
    IF total_tokens(conv) < min_tokens THEN FALSE
    ELSE has_tools(conv) \/ has_reasoning(conv)

\* lines 122-140: one conversation of the loop
FilterStep ==
    /\ pc = "filter"
    /\ IF fi > Len(conversations)
       THEN /\ pc' = "done"
            /\ UNCHANGED <<fi, filtered>>
       ELSE /\ filtered' = IF Accepts(conversations[fi])
                           THEN Append(filtered, conversations[fi])
                           ELSE filtered
            /\ fi' = fi + 1
            /\ UNCHANGED pc
    /\ UNCHANGED <<lines, min_turns, min_tokens, li, sessions, si, roots, ri,
                   current, conversation, sources, visited, conversations, walkLog,
                   raised>>

-----------------------------------------------------------------------------
(* The inputs: the decoded lines of the export and the two options.        *)

Uuids == <<"u1", "u2", "u3", "u4", "u5", "u6">>

Rec(uuid, parentUuid, sessionId, type, timestamp, message) ==
    [uuid |-> uuid, parentUuid |-> parentUuid, sessionId |-> sessionId,
     type |-> type, timestamp |-> timestamp, message |-> message]

RECURSIVE Rep(_, _)
\* s * n
Rep(s, n) ==
    IF n = 0 THEN ""
    ELSE LET half == Rep(s, n \div 2)
         IN half \o half \o (IF n % 2 = 1 THEN s ELSE "")

\* The state main() starts reconstruct from: nothing loaded yet.
Start(ls, turns, tokens) ==
    /\ lines = ls
    /\ min_turns = turns
    /\ min_tokens = tokens
    /\ pc = "load"
    /\ li = 1
    /\ sessions = <<>>
    /\ si = 1
    /\ roots = <<>>
    /\ ri = 1
    /\ current = 0
    /\ conversation = <<>>
    /\ sources = <<>>
    /\ visited = <<>>
    /\ conversations = <<>>
    /\ walkLog = <<>>
    /\ fi = 1
    /\ filtered = <<>>
    /\ raised = ""

\* One session of user records with pairwise distinct uuids, one of which may
\* be the empty string, and any parent links: absent, empty, dangling, to
\* itself, to another record.
InitTree ==
    \E n \in 1..MaxLines :
    \E e \in 0..n :
    \E par \in [1..n -> {Absent, "", "zz"} \cup {Uuids[j] : j \in 1..n}] :
    \E turns \in {1, 2} :
        Start([i \in 1..n |->
                 Rec(IF i = e THEN "" ELSE Uuids[i], par[i], "s1", "user",
                     Absent, StrMessage("hi"))], turns, 0)

\* Records of two sessions (one of them the "unknown" bucket), parent links
\* within and across the sessions.
InitSessions ==
    \E n \in 1..MaxLines :
    \E par \in [1..n -> {Absent} \cup {Uuids[j] : j \in 1..n}] :
    \E sid \in [1..n -> {Absent, "s1"}] :
        Start([i \in 1..n |->
                 Rec(Uuids[i], par[i], sid[i], "user", "t0", StrMessage("hi"))],
              1, 0)

\* The shapes of record extract_content tells apart.
Payloads ==
    { [type |-> "user", ts |-> "t0", message |-> StrMessage("hello")],
      [type |-> "user", ts |-> "t0", message |-> StrMessage("")],
      [type |-> "user", ts |-> Absent,
       message |-> DictMessage(ListContent(<<TextBlock("fix the bug"), ImageBlock>>))],
      [type |-> "user", ts |-> "t0",
       message |-> DictMessage(ListContent(<<ImageBlock>>))],
      [type |-> "assistant", ts |-> "t0",
       message |-> DictMessage(ListContent(<<TextBlock("Let me look"), ToolBlock("Edit")>>))],
      [type |-> "assistant", ts |-> Absent,
       message |-> DictMessage(ListContent(<<ToolBlock("Read")>>))],
      [type |-> "assistant", ts |-> "t0",
       message |-> DictMessage(ListContent(<<ToolBlock("Read"), ToolBlock(Absent)>>))],
      [type |-> "assistant", ts |-> "t0",
       message |-> DictMessage(ListContent(<<TextBlock(" \n")>>))],
      [type |-> "assistant", ts |-> "t0", message |-> NoMessage],
      [type |-> "system", ts |-> "t0", message |-> StrMessage("note")],
      [type |-> Absent, ts |-> "t0", message |-> StrMessage("hello")] }

\* One session, one chain of records u1 <- u2 <- ..., of any payloads; a
\* record may lack its uuid.
InitContent ==
    \E n \in 1..MaxLines :
    \E p \in [1..n -> Payloads] :
    \E nouuid \in {0, n} :
    \E turns \in {2, DefaultMinTurns} :
        Start([i \in 1..n |->
                 Rec(IF i = nouuid THEN Absent ELSE Uuids[i],
                     IF i = 1 THEN Absent ELSE Uuids[i - 1],
                     "s1", p[i].type, p[i].ts, p[i].message)], turns, 0)

Init == InitTree \/ InitSessions \/ InitContent

Next == LoadLine \/ NextSession \/ NextRoot \/ WalkStep \/ EndWalk \/ FilterStep

Spec == Init /\ [][Next]_vars

-----------------------------------------------------------------------------
(* filter_quality on its own, on conversations of any turns.               *)

LongReasoning == "Let Me see" \o Rep("x", ReasoningMinLen - 9)
ShortReasoning == "Let Me see" \o Rep("x", ReasoningMinLen - 10)
LongPlain == Rep("ab ", 67)

Turn(role, content) ==
    [role |-> role, content |-> content, timestamp |-> "", uuid |-> "u1"]

TurnChoices ==
    { Turn("user", "Please fix the bug"),
      Turn("user", LongPlain \o "let me [TOOL: Read]"),
      Turn("assistant", "\n[TOOL: Read]"),
      Turn("assistant", LongReasoning),
      Turn("assistant", ShortReasoning),
      Turn("assistant", LongPlain),
      Turn("assistant", "first try") }

ConvChoices ==
    UNION {[1..n -> TurnChoices] : n \in 1..MaxTurns}

InitFilter ==
    \E c \in ConvChoices :
    \E more \in {<<>>} \cup {<<t>> : t \in {u \in TurnChoices : Len(u.content) < 20}} :
    \E tokens \in {0, DefaultMinTokens} :
        /\ lines = <<>>
        /\ min_turns = 1
        /\ min_tokens = tokens
        /\ pc = "filter"
        /\ li = 1
        /\ sessions = <<>>
        /\ si = 1
        /\ roots = <<>>
        /\ ri = 1
        /\ current = 0
        /\ conversation = <<>>
        /\ sources = <<>>
        /\ visited = <<>>
        /\ conversations = IF more = <<>> THEN <<c>> ELSE <<c, more>>
        /\ walkLog = <<>>
        /\ fi = 1
        /\ filtered = <<>>
        /\ raised = ""

NextFilter == FilterStep

SpecFilter == InitFilter /\ [][NextFilter]_vars

-----------------------------------------------------------------------------
(* The walks: those made, and the one being made.                          *)

CurrentWalk ==
    [session |-> si, root |-> roots[ri], visited |-> visited,
     conv |-> conversation, src |-> sources, at |-> 0]

Walks ==
    {walkLog[k] : k \in 1..Len(walkLog)}
    \cup (IF pc = "walk" THEN {CurrentWalk} ELSE {})

\* The walks whose conversation reconstruct_conversations returns.
Emitted == {w \in {walkLog[k] : k \in 1..Len(walkLog)} : w.at # 0}

\* Record i names record j as its parent.
IsChildOf(i, j) ==
    lines[i].parentUuid # Absent /\ lines[i].parentUuid = lines[j].uuid

RECURSIVE ReachedIn(_, _, _)
\* i is reached from j by following at least one and at most n parent links
\* backwards.
ReachedIn(i, j, n) ==
    /\ n > 0
    /\ \/ IsChildOf(i, j)
       \/ \E m \in 1..Len(lines) : IsChildOf(i, m) /\ ReachedIn(m, j, n - 1)

IsDescendant(i, j) == ReachedIn(i, j, Len(lines))

-----------------------------------------------------------------------------
\* C3: a completed walk's conversation is in the result if and only if it has
\* at least min_turns turns, so a walk of min_turns - 1 turns is dropped, one
\* of min_turns turns is kept, and every conversation of the result has at
\* least min_turns turns.
C3_MinTurnsGate ==
    /\ \A k \in 1..Len(walkLog) :
          /\ (walkLog[k].at # 0) <=> (Len(walkLog[k].conv) >= min_turns)
          /\ walkLog[k].at # 0 =>
                /\ walkLog[k].at \in 1..Len(conversations)
                /\ conversations[walkLog[k].at] = walkLog[k].conv
    /\ \A c \in 1..Len(conversations) :
          /\ Len(conversations[c]) >= min_turns
          /\ \E k \in 1..Len(walkLog) : walkLog[k].at = c

\* A walk of exactly min_turns - 1 turns was dropped and one of exactly
\* min_turns turns kept, in one run.
C3_Witness ==
    /\ min_turns > 1
    /\ \E j, k \in 1..Len(walkLog) :
          /\ Len(walkLog[j].conv) = min_turns - 1
          /\ walkLog[j].at = 0
          /\ Len(walkLog[k].conv) = min_turns
          /\ walkLog[k].at # 0
          /\ conversations[walkLog[k].at] = walkLog[k].conv

-----------------------------------------------------------------------------
\* C6: in every conversation returned, all turns come from records of one
\* session, each turn's record is a descendant of the record of the turn
\* before it, and the first turn's record is the walk's root or a descendant
\* of it.
C6_OneSessionParentToChild ==
    \A w \in Emitted :
        /\ conversations[w.at] = w.conv
        /\ Len(w.src) = Len(w.conv)
        /\ \A t \in 1..Len(w.src) :
              /\ w.conv[t].uuid = lines[w.src[t]].uuid
              /\ SessionIdOf(lines[w.src[t]]) = sessions[w.session].id
        /\ \A t \in 1..(Len(w.src) - 1) : IsDescendant(w.src[t + 1], w.src[t])
        /\ Len(w.src) > 0 => (w.src[1] = w.root \/ IsDescendant(w.src[1], w.root))

\* A conversation of two turns or more was returned from a session one of
\* whose visited records is named as parent by a record of another session.
C6_Witness ==
    \E w \in Emitted :
        /\ Len(w.conv) >= 2
        /\ \E t \in 1..Len(w.visited) : \E i \in 1..Len(lines) :
              /\ IsChildOf(i, w.visited[t])
              /\ SessionIdOf(lines[i]) # sessions[w.session].id

-----------------------------------------------------------------------------
\* The content of a record, when extract_content returns.
ContentOf(i) == extract_content(lines[i]).val

HasContent(i) == ContentOf(i) # None /\ Len(ContentOf(i)) > 0

\* The records of the session that name record i as their parent.
ChildrenIn(session, i) ==
    {k \in 1..Len(sessions[session].messages) :
        IsChildOf(sessions[session].messages[k], i)}

RECURSIVE WithContent(_)
WithContent(idx) ==
    IF Len(idx) = 0 THEN <<>>
    ELSE (IF HasContent(idx[1]) THEN <<idx[1]>> ELSE <<>>) \o WithContent(Tail(idx))

\* C9: a visited record gives a turn exactly when its content is a non-empty
\* string; a record without content gives none, and the walk goes on to its
\* first child; every turn has non-empty content and the role of its record's
\* type.
C9_NoContentSkipped ==
    \A w \in Walks :
        /\ w.src = WithContent(w.visited)
        /\ Len(w.conv) = Len(w.src)
        /\ \A t \in 1..Len(w.conv) :
              /\ w.conv[t].content = ContentOf(w.src[t])
              /\ w.conv[t].content \notin {"", None}
              /\ w.conv[t].role \in {"user", "assistant"}
              /\ w.conv[t].role = lines[w.src[t]].type
              /\ w.conv[t].uuid = lines[w.src[t]].uuid
        /\ \A t \in 1..(Len(w.visited) - 1) :
              /\ ChildrenIn(w.session, w.visited[t]) # {}
              /\ w.visited[t + 1] = sessions[w.session].messages[
                    CHOOSE k \in ChildrenIn(w.session, w.visited[t]) :
                        \A j \in ChildrenIn(w.session, w.visited[t]) : k <= j]
        /\ (w \in {walkLog[k] : k \in 1..Len(walkLog)} /\ Len(w.visited) > 0) =>
              ChildrenIn(w.session, w.visited[Len(w.visited)]) = {}

\* A returned walk went through a record without content and took a turn
\* from a record after it.
C9_Witness ==
    \E w \in Emitted :
        \E t \in 1..(Len(w.visited) - 1) :
            /\ ~HasContent(w.visited[t])
            /\ HasContent(w.visited[t + 1])
            /\ w.visited[t + 1] \in {w.src[k] : k \in 1..Len(w.src)}

-----------------------------------------------------------------------------
\* The position in the session's messages of record i; 0 when it is not there.
PositionIn(session, i) ==
    IF \E k \in 1..Len(sessions[session].messages) :
            sessions[session].messages[k] = i
    THEN CHOOSE k \in 1..Len(sessions[session].messages) :
            sessions[session].messages[k] = i
    ELSE 0

\* C1: when records B and C both have A's uuid as their parentUuid and B comes
\* before C in the session, a walk that visits A never visits C, and goes on
\* from A to the first such B.
C1_FirstChildOnly ==
    \A w \in Walks :
        \A t \in 1..Len(w.visited) :
            LET A == w.visited[t]
                kids == ChildrenIn(w.session, A)
            IN \A b, c \in kids :
                  (/\ b < c
                   /\ sessions[w.session].messages[b] # A
                   /\ sessions[w.session].messages[c] # A) =>
                     /\ \A u \in 1..Len(w.visited) :
                           w.visited[u] # sessions[w.session].messages[c]
                     /\ (t < Len(w.visited) /\ \A j \in kids : b <= j) =>
                           w.visited[t + 1] = sessions[w.session].messages[b]

-----------------------------------------------------------------------------
\* C2: a record of the session starts a walk if and only if it has no
\* parentUuid or its parentUuid is the uuid of no record of the session.
C2_RootIffNoResolvableParent ==
    pc = "roots" =>
        \A k \in 1..Len(sessions[si].messages) :
            LET m == sessions[si].messages[k]
            IN (\E r \in 1..Len(roots) : roots[r] = m)
               <=> \/ lines[m].parentUuid = Absent
                   \/ \A j \in 1..Len(sessions[si].messages) :
                         lines[sessions[si].messages[j]].uuid # lines[m].parentUuid

-----------------------------------------------------------------------------
\* An assistant record with no text block and at least one tool_use block.
ToolOnly(msg) ==
    /\ msg.type = "assistant"
    /\ msg.message.kind = "dict"
    /\ msg.message.content.kind = "list"
    /\ Len(msg.message.content.blocks) > 0
    /\ \A k \in 1..Len(msg.message.content.blocks) :
          msg.message.content.blocks[k].type = "tool_use"

RECURSIVE Markers(_)
\* "[TOOL: n1]", ..., "[TOOL: nk]" of the tool_use blocks
Markers(blocks) ==
    IF Len(blocks) = 0 THEN <<>>
    ELSE <<"[TOOL: " \o Get(blocks[1], "name", "") \o "]">> \o Markers(Tail(blocks))

\* C5: an assistant record with no text block and the tool_use blocks n1..nk
\* extracts to the markers [TOOL: n1] .. [TOOL: nk] joined by newlines, with
\* nothing before or after: a single tool_use block Read gives "[TOOL: Read]".
C5_ToolOnlyExtraction ==
    \A t \in 1..Len(visited) :
        ToolOnly(lines[visited[t]]) =>
            ContentOf(visited[t]) =
                Join(Markers(lines[visited[t]].message.content.blocks), "\n")

-----------------------------------------------------------------------------
\* C7: whichever fields of a record are absent, load_raw_data,
\* reconstruct_conversations and extract_content do not raise.
C7_NeverRaises == pc # "raised" /\ raised = ""

-----------------------------------------------------------------------------
\* C8: with pairwise distinct uuids, a walk visits every record at most once
\* and ends exactly when no record has the current record's uuid as its
\* parentUuid; only a session without a root gives no walk.
C8_WalkVisitsOnce ==
    \A w \in Walks :
        /\ \A t, u \in 1..Len(w.visited) : t # u => w.visited[t] # w.visited[u]
        /\ (w \in {walkLog[k] : k \in 1..Len(walkLog)} /\ Len(w.visited) > 0) =>
              ChildrenIn(w.session, w.visited[Len(w.visited)]) = {}
    /\ \A s \in 1..Len(sessions) :
          (s < si /\ ~\E k \in 1..Len(walkLog) : walkLog[k].session = s) =>
              ~\E k \in 1..Len(sessions[s].messages) :
                    IsRoot(lines[sessions[s].messages[k]],
                           MsgMapKeys(sessions[s].messages))

-----------------------------------------------------------------------------
\* C10: with pairwise distinct uuids, no uuid appears twice in the result,
\* within a conversation or in two of them, and the conversations are those
\* of the kept walks, one per root at most, in session-then-root order.
C10_Disjoint ==
    /\ \A c, d \in 1..Len(conversations) :
          \A t \in 1..Len(conversations[c]) :
             \A u \in 1..Len(conversations[d]) :
                (c # d \/ t # u) =>
                    conversations[c][t].uuid # conversations[d][u].uuid
    /\ \A j, k \in 1..Len(walkLog) :
          (j < k /\ walkLog[j].at # 0 /\ walkLog[k].at # 0) =>
              /\ walkLog[j].at < walkLog[k].at
              /\ walkLog[j].session <= walkLog[k].session
              /\ walkLog[j].session = walkLog[k].session =>
                    PositionIn(walkLog[j].session, walkLog[j].root)
                        < PositionIn(walkLog[k].session, walkLog[k].root)

-----------------------------------------------------------------------------
\* The claims C1, C2, C8 and C10 fail only on an input that has the empty
\* string as a uuid, and C7 only on a record without uuid or type.
NoEmptyUuid == \A i \in 1..Len(lines) : lines[i].uuid # ""

C1_WithoutEmptyUuid == NoEmptyUuid => C1_FirstChildOnly
C2_WithoutEmptyUuid == NoEmptyUuid => C2_RootIffNoResolvableParent
C8_WithoutEmptyUuid == NoEmptyUuid => C8_WalkVisitsOnce
C10_WithoutEmptyUuid == NoEmptyUuid => C10_Disjoint
C7_WithUuidAndType ==
    (\A i \in 1..Len(lines) : lines[i].uuid # Absent /\ lines[i].type # Absent)
        => C7_NeverRaises

-----------------------------------------------------------------------------
(* The quality filter's decision, stated on the characters of the turns.   *)

IsSpace(s, i) == Char(s, i) \in {" ", "\n", "\t"}

\* The words of s, counted by their first characters.
WordsIn(s) ==
    Cardinality({i \in 1..Len(s) : ~IsSpace(s, i) /\ (i = 1 \/ IsSpace(s, i - 1))})

RECURSIVE WordsOf(_)
WordsOf(conv) ==
    IF Len(conv) = 0 THEN 0 ELSE WordsIn(conv[1].content) + WordsOf(Tail(conv))

\* word is in s at position i, whatever the case of the letters of s
MatchesAt(s, i, word) ==
    /\ i + Len(word) - 1 <= Len(s)
    /\ \A j \in 1..Len(word) : LowerChar(Char(s, i + j - 1)) = Char(word, j)

\* word is in s at position i
IsAt(s, i, word) ==
    /\ i + Len(word) - 1 <= Len(s)
    /\ \A j \in 1..Len(word) : Char(s, i + j - 1) = Char(word, j)

TenKeywords == {"let me", "first", "then", "next", "because", "however",
                "consider", "alternatively", "analysis", "approach"}

ClaimHasTools(conv) ==
    \E k \in 1..Len(conv) :
        /\ conv[k].role = "assistant"
        /\ \E i \in 1..Len(conv[k].content) : IsAt(conv[k].content, i, "[TOOL:")

ClaimHasReasoning(conv) ==
    \E k \in 1..Len(conv) :
        /\ conv[k].role = "assistant"
        /\ Len(conv[k].content) >= ReasoningMinLen + 1
        /\ \E word \in TenKeywords :
              \E i \in 1..Len(conv[k].content) : MatchesAt(conv[k].content, i, word)

ClaimKeeps(conv) ==
    /\ WordsOf(conv) >= min_tokens
    /\ ClaimHasTools(conv) \/ ClaimHasReasoning(conv)

RECURSIVE ClaimKept(_)
ClaimKept(convs) ==
    IF Len(convs) = 0 THEN <<>>
    ELSE (IF ClaimKeeps(convs[1]) THEN <<convs[1]>> ELSE <<>>)
         \o ClaimKept(Tail(convs))

====
